---- MODULE Spec2Model ----
(***************************************************************************)
(* pylint-per-file-ignores: the per-file-ignores configuration string is   *)
(* parsed into (pattern, rule list) entries, every pattern is expanded to  *)
(* a file list, every rule token is resolved in the host registry, and one *)
(* wrapper per entry and per owning checker class is put in front of that  *)
(* class's add_message.  Text is modelled as sequences of one-character    *)
(* strings, so that splitting, stripping and the regular expression of     *)
(* _parse_string are computed character by character.                      *)
(***************************************************************************)
EXTENDS Integers, Sequences, FiniteSets, TLC

VARIABLES
    fs,            \* the files that exist in the working directory (relative names)
    current_file,  \* linter.current_file of every engine instance, or NoFile
    add_message,   \* per checker class: the wrappers around its add_message, innermost first
    aborted,       \* an exception of load_configuration reached the process entry point
    nlines,        \* number of configuration lines loaded so far, over all calls
    entries,       \* history: the entries written in the configurations loaded so far
    load,          \* what the load_configuration call of the last step did
    last,          \* what the emission of the last step did
    pin,           \* parser specification: the entries to encode
    pout           \* parser specification: what the two encodings parse to

vars == <<fs, current_file, add_message, aborted, nlines, entries, load, last, pin, pout>>

\* No checker, no error.
None == "None"
\* linter.current_file before any module is set (falsy, as None is).
NoFile == <<>>
\* The last step was no load_configuration call, no emission, no parse.
NoLoad == [result |-> "none"]
NoEmission == [result |-> "none"]
NoParse == [done |-> FALSE]

(***************************************************************************)
(* Bounds of the model.                                                    *)
(***************************************************************************)
\* Configuration lines one process loads, over all its load_configuration calls.
MaxLines == 2
\* Entries encoded in the parser specification.
MaxEntries == 3
\* Characters of a configuration line in the line specification.
MaxLineLen == 4

(***************************************************************************)
(* Text.                                                                   *)
(***************************************************************************)
NL == "\n"
\* The characters str.strip() removes: those of str.isspace() up to U+00A0
\* (the module's text cannot hold the Unicode spaces above it).
Whitespace ==
    {"\t", NL, "", "\f", "\r", "", "", "", "", " ", "", " "}

RECURSIVE JoinWith(_, _)
JoinWith(parts, sep) ==
    IF parts = <<>> THEN <<>>
    ELSE IF Len(parts) = 1 THEN parts[1]
    ELSE parts[1] \o sep \o JoinWith(Tail(parts), sep)

Contains(s, c) == \E i \in 1..Len(s) : s[i] = c

\* str.split(sep) for a one-character separator: always at least one piece.
RECURSIVE SplitFrom(_, _, _, _)
SplitFrom(s, sep, i, piece) ==
    IF i > Len(s) THEN <<piece>>
    ELSE IF s[i] = sep THEN <<piece>> \o SplitFrom(s, sep, i + 1, <<>>)
    ELSE SplitFrom(s, sep, i + 1, Append(piece, s[i]))

Split(s, sep) == SplitFrom(s, sep, 1, <<>>)

\* str.strip(): leading and trailing whitespace removed.
RECURSIVE LStrip(_)
LStrip(s) == IF s # <<>> /\ s[1] \in Whitespace THEN LStrip(Tail(s)) ELSE s

RECURSIVE RStrip(_)
RStrip(s) ==
    IF s # <<>> /\ s[Len(s)] \in Whitespace THEN RStrip(SubSeq(s, 1, Len(s) - 1)) ELSE s

Strip(s) == RStrip(LStrip(s))

\* pylint.utils._splitstrip: [word.strip() for word in string.split(sep) if word.strip()]
RECURSIVE StripNonEmpty(_)
StripNonEmpty(words) ==
    IF words = <<>> THEN <<>>
    ELSE LET w == Strip(words[1])
         IN  (IF w = <<>> THEN <<>> ELSE <<w>>) \o StripNonEmpty(Tail(words))

splitstrip(s, sep) == StripNonEmpty(Split(s, sep))

\* RunEnd for the expression ",([^:]+:)": the run may hold commas.
RECURSIVE RunEnd_to_colon(_, _)
RunEnd_to_colon(s, i) ==
    IF i > Len(s) \/ s[i] = ":" THEN i ELSE RunEnd_to_colon(s, i + 1)

\* The end of the longest run of [^,:] that starts at i: the first position >= i
\* that holds a comma or a colon, or Len(s) + 1.
RECURSIVE RunEnd(_, _)
RunEnd(s, i) ==
    IF i > Len(s) \/ s[i] \in {",", ":"} THEN i ELSE RunEnd(s, i + 1)

\* re.sub(r",([^,:]+:)", r"\n\1", s): left to right, non-overlapping; a comma
\* followed by one or more characters other than comma and colon and then a colon
\* becomes a line break, and the scan goes on after that colon.
RECURSIVE ReSubFrom(_, _)
ReSubFrom(s, i) ==
    IF i > Len(s) THEN <<>>
    ELSE LET e == RunEnd(s, i + 1)
         IN  IF s[i] = "," /\ e > i + 1 /\ e <= Len(s) /\ s[e] = ":"
             THEN <<NL>> \o SubSeq(s, i + 1, e) \o ReSubFrom(s, e + 1)
             ELSE <<s[i]>> \o ReSubFrom(s, i + 1)

parse_string(input_string) ==
    LET flat == IF ~Contains(input_string, NL)
                THEN ReSubFrom(input_string, 1)
                ELSE input_string
    IN  splitstrip(flat, NL)

(***************************************************************************)
(* The host engine: its checker classes, their message catalogs, its       *)
(* message store, the filesystem and paths.                                *)
(***************************************************************************)
\* linter.get_checkers(), in registration order; one checker instance per class.
Checkers == <<"K1", "K2">>
Owners == {Checkers[i] : i \in DOMAIN Checkers}

\* The engine instances of the process.
Linters == {"L1", "L2"}

\* checker.msgs: msgid -> (message, symbol, ...), as the items of the dict in order.
msgs ==
    [K1 |-> << [msgid |-> <<"W", "1">>, symbol |-> <<"u">>],
               [msgid |-> <<"W", "2">>, symbol |-> <<"v">>] >>,
     K2 |-> << [msgid |-> <<"C", "3">>, symbol |-> <<"w">>] >>]

\* The store's legacy names: an old msgid or symbol and the msgid that replaced it.
\* No checker catalog lists them.
old_names == << [old |-> <<"O">>, msgid |-> <<"W", "1">>] >>

\* The definitions of the store, in registration order (a MessageDefinition
\* compares by msgid and symbol).
RECURSIVE Concat(_)
Concat(seqs) == IF seqs = <<>> THEN <<>> ELSE seqs[1] \o Concat(Tail(seqs))

StoreDefinitions == Concat([i \in DOMAIN Checkers |-> msgs[Checkers[i]]])

\* linter.msgs_store.get_message_definitions(rule): the definitions that rule names,
\* by msgid, by symbol or by a legacy name; <<>> stands for UnknownMessageError.
get_message_definitions(rule) ==
    LET active(d) ==
            \/ d.msgid = rule
            \/ d.symbol = rule
            \/ \E i \in DOMAIN old_names :
                   old_names[i].old = rule /\ old_names[i].msgid = d.msgid
    IN  SelectSeq(StoreDefinitions, active)

\* _get_checker_by_msg: the first checker whose catalog holds rule as a key (msgid)
\* or as a symbol; None stands for UnknownMessageError.
get_checker_by_msg(rule) ==
    LET declares(c) == \E k \in DOMAIN msgs[c] :
                           rule \in {msgs[c][k].msgid, msgs[c][k].symbol}
        hits == {i \in DOMAIN Checkers : declares(Checkers[i])}
    IN  IF hits = {} THEN None
        ELSE Checkers[CHOOSE i \in hits : \A j \in hits : i <= j]

\* The file paths the working directory may hold, relative to it: a is there
\* throughout, b is created and deleted while the process runs.
Files == {<<"a">>, <<"b">>}
Volatile == {<<"b">>}
Cwd == <<"/">>

\* The directories the working directory can be.
Directories == {(Files \ Volatile) \cup v : v \in SUBSET Volatile}

\* The components of a path: the text between its slashes, without the empty
\* ones and without ".".
RECURSIVE Parts(_)
Parts(comps) ==
    IF comps = <<>> THEN <<>>
    ELSE (IF comps[1] \in {<<>>, <<".">>} THEN <<>> ELSE <<comps[1]>>) \o Parts(Tail(comps))

\* Path(p).absolute(): Path drops empty components, "." components and a
\* trailing slash (".." stays); a path with a root is kept, two leading slashes
\* (not three) being a root of their own, and a relative one is put under the
\* working directory.
Absolute(p) ==
    LET parts == Parts(Split(p, "/"))
        rel   == JoinWith(parts, <<"/">>)
        root  == IF Len(p) >= 2 /\ p[1] = "/" /\ p[2] = "/" /\ (Len(p) = 2 \/ p[3] # "/")
                 THEN <<"/", "/">>
                 ELSE IF p # <<>> /\ p[1] = "/" THEN <<"/">>
                 ELSE <<>>
        cwd   == Parts(Split(Cwd, "/"))
    IN  IF root # <<>> THEN root \o rel
        ELSE <<"/">> \o JoinWith(cwd \o parts, <<"/">>)

\* The values linter.current_file takes once a module is set: the path of a
\* file as the engine was given it, relative to the working directory.
Paths == {<<"a">>, <<".", "/", "b">>}

\* The characters U+0001 to U+00FF in code-point order, so that the place of a
\* character is its code point; the place of the backquote (96), which a string
\* of the module cannot hold, is filled with the empty string.
CodePoints ==
    << "", "", "", "", "", "", "", "", "\t", "\n", "", "\f",
       "\r", "", "", "", "", "", "", "", "", "", "", "",
       "", "", "", "", "", "", "", " ", "!", "\"", "#", "$",
       "%", "&", "'", "(", ")", "*", "+", ",", "-", ".", "/", "0",
       "1", "2", "3", "4", "5", "6", "7", "8", "9", ":", ";", "<",
       "=", ">", "?", "@", "A", "B", "C", "D", "E", "F", "G", "H",
       "I", "J", "K", "L", "M", "N", "O", "P", "Q", "R", "S", "T",
       "U", "V", "W", "X", "Y", "Z", "[", "\\", "]", "^", "_", "",
       "a", "b", "c", "d", "e", "f", "g", "h", "i", "j", "k", "l",
       "m", "n", "o", "p", "q", "r", "s", "t", "u", "v", "w", "x",
       "y", "z", "{", "|", "}", "~", "", "", "", "", "", "",
       "", "", "", "", "", "", "", "", "", "", "", "",
       "", "", "", "", "", "", "", "", "", "", "", "",
       "", "", "", " ", "¡", "¢", "£", "¤", "¥", "¦", "§", "¨",
       "©", "ª", "«", "¬", "­", "®", "¯", "°", "±", "²", "³", "´",
       "µ", "¶", "·", "¸", "¹", "º", "»", "¼", "½", "¾", "¿", "À",
       "Á", "Â", "Ã", "Ä", "Å", "Æ", "Ç", "È", "É", "Ê", "Ë", "Ì",
       "Í", "Î", "Ï", "Ð", "Ñ", "Ò", "Ó", "Ô", "Õ", "Ö", "×", "Ø",
       "Ù", "Ú", "Û", "Ü", "Ý", "Þ", "ß", "à", "á", "â", "ã", "ä",
       "å", "æ", "ç", "è", "é", "ê", "ë", "ì", "í", "î", "ï", "ð",
       "ñ", "ò", "ó", "ô", "õ", "ö", "÷", "ø", "ù", "ú", "û", "ü",
       "ý", "þ", "ÿ">>

\* ord(c): Python compares the characters of a set by code point.
Ord(c) ==
    IF \E i \in DOMAIN CodePoints : CodePoints[i] = c
    THEN CHOOSE i \in DOMAIN CodePoints : CodePoints[i] = c
    ELSE Len(CodePoints) + 1

\* The first position >= i of s that holds c, or 0.
RECURSIVE FirstAt(_, _, _)
FirstAt(s, c, i) ==
    IF i > Len(s) THEN 0 ELSE IF s[i] = c THEN i ELSE FirstAt(s, c, i + 1)

\* fnmatch.translate at a "[": the position of the "]" that closes the set whose
\* text starts at i (a "!" and then a "]" at its start do not close it), or 0
\* when there is none and the "[" is a literal.
BracketEnd(p, i) ==
    LET j1 == IF i <= Len(p) /\ p[i] = "!" THEN i + 1 ELSE i
        j2 == IF j1 <= Len(p) /\ p[j1] = "]" THEN j1 + 1 ELSE j1
    IN  FirstAt(p, "]", j2)

\* fnmatch.translate cuts the text of a set at the hyphens that make a range:
\* the text from i to the next hyphen at k or later is a chunk, and the search
\* goes on three positions after that hyphen; the rest is the last chunk.
RECURSIVE ChunksFrom(_, _, _)
ChunksFrom(stuff, i, k) ==
    LET h == FirstAt(stuff, "-", k)
    IN  IF h = 0 THEN <<SubSeq(stuff, i, Len(stuff))>>
        ELSE <<SubSeq(stuff, i, h - 1)>> \o ChunksFrom(stuff, h + 1, h + 3)

\* The chunks of a set: the search for hyphens starts at the second character,
\* at the third after a leading "!"; a hyphen at the very end is put back on the
\* chunk before it.
Chunks(stuff) ==
    LET cs == ChunksFrom(stuff, 1, IF stuff[1] = "!" THEN 3 ELSE 2)
        n  == Len(cs)
    IN  IF n > 1 /\ cs[n] = <<>>
        THEN [SubSeq(cs, 1, n - 1) EXCEPT ![n - 1] = @ \o <<"-">>]
        ELSE cs

\* "Remove empty ranges": from the last chunk down to the second, a chunk whose
\* first character is below the last character of the chunk before it is joined
\* to that chunk, and both ends of the range are dropped.
RECURSIVE RemoveEmptyRanges(_, _)
RemoveEmptyRanges(chunks, k) ==
    IF k < 2 THEN chunks
    ELSE IF Ord(chunks[k - 1][Len(chunks[k - 1])]) > Ord(chunks[k][1])
         THEN RemoveEmptyRanges(
                  SubSeq(chunks, 1, k - 2)
                      \o << SubSeq(chunks[k - 1], 1, Len(chunks[k - 1]) - 1) \o Tail(chunks[k]) >>
                      \o SubSeq(chunks, k + 1, Len(chunks)),
                  k - 1)
    ELSE RemoveEmptyRanges(chunks, k - 1)

\* c is in the character class made of the chunks joined by hyphens: a joining
\* hyphen makes a range from the last character of the chunk before it to the
\* first character of the chunk after it, every other character is a literal
\* (translate escapes them); after an empty first chunk the hyphen is a literal.
InClass(c, chunks) ==
    \/ \E k \in DOMAIN chunks : \E n \in DOMAIN chunks[k] :
           /\ chunks[k][n] = c
           /\ ~(n = Len(chunks[k]) /\ k < Len(chunks))
           /\ ~(n = 1 /\ k > 1 /\ chunks[k - 1] # <<>>)
    \/ \E k \in DOMAIN chunks :
           /\ k > 1
           /\ IF chunks[k - 1] = <<>> THEN c = "-"
              ELSE /\ Ord(chunks[k - 1][Len(chunks[k - 1])]) <= Ord(c)
                   /\ Ord(c) <= Ord(chunks[k][1])

\* c is matched by the set with text `stuff`.  What is left of the text once the
\* empty ranges are removed decides: nothing matches no character, "!" alone
\* matches every character, a leading "!" negates the class.
InBracket(c, stuff) ==
    LET raw    == Chunks(stuff)
        chunks == RemoveEmptyRanges(raw, Len(raw))
    IN  IF chunks = << <<>> >> THEN FALSE
        ELSE IF chunks = << <<"!">> >> THEN TRUE
        ELSE IF chunks[1] # <<>> /\ chunks[1][1] = "!"
             THEN ~InClass(c, [chunks EXCEPT ![1] = Tail(@)])
        ELSE InClass(c, chunks)

\* fnmatch of a name against a pattern, from positions i and j on: "*" matches
\* any run of characters, "?" one character, "[...]" one character of the set.
RECURSIVE FnMatch(_, _, _, _)
FnMatch(p, i, s, j) ==
    IF i > Len(p) THEN j > Len(s)
    ELSE IF p[i] = "*"
         THEN FnMatch(p, i + 1, s, j) \/ (j <= Len(s) /\ FnMatch(p, i, s, j + 1))
    ELSE IF p[i] = "?"
         THEN j <= Len(s) /\ FnMatch(p, i + 1, s, j + 1)
    ELSE IF p[i] = "[" /\ BracketEnd(p, i + 1) # 0
         THEN /\ j <= Len(s)
              /\ InBracket(s[j], SubSeq(p, i + 1, BracketEnd(p, i + 1) - 1))
              /\ FnMatch(p, BracketEnd(p, i + 1) + 1, s, j + 1)
    ELSE j <= Len(s) /\ s[j] = p[i] /\ FnMatch(p, i + 1, s, j + 1)

\* fnmatch.filter's test of one name.
GlobMatch(p, s) == FnMatch(p, 1, s, 1)

\* The directory tree: every file as the list of its components from the root,
\* the working directory's own components first.
FileParts(files) == {Parts(Split(Cwd, "/")) \o Split(f, "/") : f \in files}

IsPrefix(a, b) == Len(a) <= Len(b) /\ SubSeq(b, 1, Len(a)) = a

IsDirNode(files, node) ==
    \/ IsPrefix(node, Parts(Split(Cwd, "/")))
    \/ \E fp \in FileParts(files) : Len(fp) > Len(node) /\ IsPrefix(node, fp)

ExistsNode(files, node) == IsDirNode(files, node) \/ node \in FileParts(files)

\* The node a literal path leads to from `node`, as a set of none or one: every
\* component is looked up in a directory; "", "." and ".." need one too.
RECURSIVE Walk(_, _, _)
Walk(files, node, comps) ==
    IF comps = <<>> THEN {node}
    ELSE IF ~IsDirNode(files, node) THEN {}
    ELSE IF comps[1] \in {<<>>, <<".">>} THEN Walk(files, node, Tail(comps))
    ELSE IF comps[1] = <<".", ".">>
         THEN Walk(files, SubSeq(node, 1, Len(node) - 1), Tail(comps))
    ELSE IF ExistsNode(files, Append(node, comps[1]))
         THEN Walk(files, Append(node, comps[1]), Tail(comps))
    ELSE {}

Lookup(files, path) ==
    IF path = <<>> THEN {}
    ELSE Walk(files, IF path[1] = "/" THEN <<>> ELSE Parts(Split(Cwd, "/")),
              Split(path, "/"))

\* os.path.lexists and os.path.isdir.
lexists(files, path) == Lookup(files, path) # {}
isdir(files, path) == \E node \in Lookup(files, path) : IsDirNode(files, node)

\* glob._listdir: the names in a directory ("" is the working directory), the
\* directories among them only when dironly; nothing when it is no directory.
listdir(files, dirname, dironly) ==
    LET nodes == IF dirname = <<>> THEN {Parts(Split(Cwd, "/"))} ELSE Lookup(files, dirname)
    IN  UNION {{name \in {fp[Len(node) + 1] :
                            fp \in {q \in FileParts(files) :
                                        Len(q) > Len(node) /\ IsPrefix(node, q)}} :
                    dironly => IsDirNode(files, Append(node, name))}
               : node \in nodes}

\* glob.has_magic, glob._ishidden.
has_magic(s) == \E i \in DOMAIN s : s[i] \in {"*", "?", "["}
ishidden(name) == name # <<>> /\ name[1] = "."

\* os.path.split: the text up to the last slash, without its trailing slashes
\* unless it is slashes only, and the text after it.
RECURSIVE RStripSlashes(_)
RStripSlashes(s) ==
    IF s # <<>> /\ s[Len(s)] = "/" THEN RStripSlashes(SubSeq(s, 1, Len(s) - 1)) ELSE s

path_split(p) ==
    LET at   == {i \in DOMAIN p : p[i] = "/"}
        i    == IF at = {} THEN 0 ELSE CHOOSE k \in at : \A m \in at : m <= k
        head == SubSeq(p, 1, i)
    IN  <<IF \E k \in DOMAIN head : head[k] # "/" THEN RStripSlashes(head) ELSE head,
          SubSeq(p, i + 1, Len(p))>>

\* os.path.join of two, and glob._join.
path_join(a, b) ==
    IF b # <<>> /\ b[1] = "/" THEN b
    ELSE IF a = <<>> \/ a[Len(a)] = "/" THEN a \o b
    ELSE a \o <<"/">> \o b

join(dirname, basename) ==
    IF dirname = <<>> \/ basename = <<>> THEN dirname \o basename
    ELSE path_join(dirname, basename)

\* glob._glob1: the names of a directory that match a pattern; hidden names only
\* for a pattern that starts with a dot.
glob1(files, dirname, pattern, dironly) ==
    {name \in listdir(files, dirname, dironly) :
        /\ ishidden(pattern) \/ ~ishidden(name)
        /\ GlobMatch(pattern, name)}

\* glob._glob0: a literal name that exists; an empty one stands for the
\* directory itself.
glob0(files, dirname, basename) ==
    IF basename # <<>>
    THEN (IF lexists(files, join(dirname, basename)) THEN {basename} ELSE {})
    ELSE (IF isdir(files, dirname) THEN {basename} ELSE {})

\* glob._rlistdir: every name below a directory that is not hidden and is not
\* below a hidden one, relative to the directory.
RECURSIVE rlistdir(_, _, _)
rlistdir(files, dirname, dironly) ==
    UNION {{x} \cup {join(x, y) :
                       y \in rlistdir(files, IF dirname # <<>> THEN join(dirname, x) ELSE x,
                                      dironly)}
           : x \in {n \in listdir(files, dirname, dironly) : ~ishidden(n)}}

\* glob._glob2, for the pattern "**": the directory itself (the empty name) and
\* everything below it.
glob2(files, dirname, dironly) == {<<>>} \cup rlistdir(files, dirname, dironly)

\* glob._iglob with recursive=True: the pattern's directory part is expanded
\* first (directories only), then its last component in each directory found.
RECURSIVE iglob(_, _, _)
InDirs(files, dirs, basename, dironly) ==
    UNION {{path_join(d, name) :
                name \in IF has_magic(basename)
                         THEN (IF basename = <<"*", "*">>
                               THEN glob2(files, d, dironly)
                               ELSE glob1(files, d, basename, dironly))
                         ELSE glob0(files, d, basename)}
           : d \in dirs}

SplitGlob(files, pathname, dirname, basename, dironly) ==
    IF ~has_magic(pathname)
    THEN (IF basename # <<>>
          THEN (IF lexists(files, pathname) THEN {pathname} ELSE {})
          ELSE (IF isdir(files, dirname) THEN {pathname} ELSE {}))
    ELSE IF dirname = <<>>
         THEN (IF basename = <<"*", "*">>
               THEN glob2(files, <<>>, dironly)
               ELSE glob1(files, <<>>, basename, dironly))
    ELSE InDirs(files,
                IF dirname # pathname /\ has_magic(dirname)
                THEN iglob(files, dirname, TRUE)
                ELSE {dirname},
                basename, dironly)

iglob(files, pathname, dironly) ==
    SplitGlob(files, pathname, path_split(pathname)[1], path_split(pathname)[2], dironly)

\* glob that expands the pattern over every name, whether the file exists or not.
glob_names(pattern, files) == iglob(Files, pattern, FALSE) \ {<<>>}

\* glob.glob(pattern, recursive=True) in a working directory that holds `files`,
\* as the set of the paths it returns; the empty name that "**" yields first is
\* skipped.
glob(pattern, files) == iglob(files, pattern, FALSE) \ {<<>>}

(***************************************************************************)
(* _augment_add_message.                                                   *)
(***************************************************************************)
\* checkers[checker].extend(defs) on the defaultdict, which keeps the order in
\* which its keys were first used.
Extend(groups, checker, defs) ==
    LET at == {i \in DOMAIN groups : groups[i].checker = checker}
    IN  IF at = {}
        THEN Append(groups, [checker |-> checker, messages |-> defs])
        ELSE LET i == CHOOSE i \in at : TRUE
             IN  [groups EXCEPT ![i].messages = @ \o defs]

\* The first loop: every rule is resolved, in order; the first unknown one raises.
RECURSIVE GroupRules(_, _)
Resolved(rules, groups, defs, checker) ==
    IF defs = <<>> \/ checker = None
    THEN [ok |-> FALSE, groups |-> groups]
    ELSE GroupRules(Tail(rules), Extend(groups, checker, defs))

GroupRules(rules, groups) ==
    IF rules = <<>> THEN [ok |-> TRUE, groups |-> groups]
    ELSE Resolved(rules, groups,
                  get_message_definitions(rules[1]), get_checker_by_msg(rules[1]))

\* A second loop whose wrapper calls the class's original add_message instead of
\* the add_message of the moment: the wrappers installed before are lost.
RECURSIVE Install_over_original(_, _, _, _)
Install_over_original(linter, groups, files, methods) ==
    IF groups = <<>> THEN methods
    ELSE Install_over_original(
             linter, Tail(groups), files,
             [methods EXCEPT ![groups[1].checker] =
                  <<[linter |-> linter, files |-> files,
                     ppfi_messages |-> groups[1].messages]>>])

\* A second loop that keeps one wrapper per class and extends it: its files and
\* its messages are the unions of those of all entries installed so far.
RECURSIVE Install_merged(_, _, _, _)
Install_merged(linter, groups, files, methods) ==
    IF groups = <<>> THEN methods
    ELSE LET g == groups[1]
             old == methods[g.checker]
         IN  Install_merged(
                 linter, Tail(groups), files,
                 [methods EXCEPT ![g.checker] =
                      IF old = <<>>
                      THEN <<[linter |-> linter, files |-> files,
                              ppfi_messages |-> g.messages]>>
                      ELSE <<[linter |-> linter, files |-> old[1].files \cup files,
                              ppfi_messages |-> old[1].ppfi_messages \o g.messages]>>])

\* The second loop: each checker's class gets a wrapper that closes over the
\* linter, the files, the checker's messages and the class's add_message of the
\* moment (the wrappers below it).
RECURSIVE Install(_, _, _, _)
Install(linter, groups, files, methods) ==
    IF groups = <<>> THEN methods
    ELSE LET g == groups[1]
             wrapper == [linter |-> linter, files |-> files, ppfi_messages |-> g.messages]
         IN  Install(linter, Tail(groups), files,
                     [methods EXCEPT ![g.checker] = Append(@, wrapper)])

\* Both loops, given what the first one returned.
InstallGroups(linter, g, files, methods) ==
    IF g.ok
    THEN [ok |-> TRUE, methods |-> Install(linter, g.groups, files, methods),
          installed |-> Len(g.groups)]
    ELSE [ok |-> FALSE, methods |-> methods, installed |-> 0]

augment_add_message(linter, rules, files, methods) ==
    InstallGroups(linter, GroupRules(rules, <<>>), files, methods)

(***************************************************************************)
(* The configurations the model loads: up to MaxLines lines, each written  *)
(* from a pattern and a list of rule tokens (or without the colon), joined *)
(* by line breaks or by commas.                                            *)
(***************************************************************************)
Patterns == {<<"*">>, <<"b">>}

RuleLists ==
    { << <<"W", "1">> >>,               \* a msgid
      << <<"v">>, <<" ", "C", "3">> >>, \* a symbol of the same owner and, after a space, a rule of another owner
      << <<"X">> >>,                    \* a token the store does not know
      << <<"O">> >> }                   \* a legacy name: known to the store, in no catalog

Lines ==
    [pattern : Patterns, tokens : RuleLists, colon : {TRUE}]
        \cup {[pattern |-> <<"b">>, tokens |-> <<>>, colon |-> FALSE]}

Separators == {NL, ","}

RECURSIVE SeqsUpTo(_, _)
SeqsUpTo(S, n) ==
    IF n = 0 THEN {<<>>}
    ELSE LET shorter == SeqsUpTo(S, n - 1)
         IN  shorter \cup {Append(q, x) : q \in {r \in shorter : Len(r) = n - 1}, x \in S}

Configs == SeqsUpTo(Lines, MaxLines)

\* The configurations of at most n lines.
ConfigsUpTo == [n \in 0..MaxLines |-> {lines \in Configs : Len(lines) <= n}]

Render(line) ==
    IF line.colon THEN line.pattern \o <<":">> \o JoinWith(line.tokens, <<",">>)
    ELSE line.pattern

Raw(lines, sep) == JoinWith([i \in DOMAIN lines |-> Render(lines[i])], <<sep>>)

\* The configuration strings of the model.
RawConfigs == {Raw(lines, sep) : lines \in Configs, sep \in Separators}

(***************************************************************************)
(* load_configuration.                                                     *)
(***************************************************************************)
\* A dict construction in which a key seen again keeps its first value.
RECURSIVE DictFrom_first_wins(_, _)
DictFrom_first_wins(pairs, d) ==
    IF pairs = <<>> THEN d
    ELSE DictFrom_first_wins(
             Tail(pairs),
             IF \E i \in DOMAIN d : d[i][1] = pairs[1][1] THEN d
             ELSE Append(d, <<pairs[1][1], pairs[1][2]>>))

\* dict(pairs): a key seen again keeps its place and takes the new value.
RECURSIVE DictFrom(_, _)
DictFrom(pairs, d) ==
    IF pairs = <<>> THEN d
    ELSE LET k == pairs[1][1]
             v == pairs[1][2]
             at == {i \in DOMAIN d : d[i][1] = k}
         IN  DictFrom(Tail(pairs),
                      IF at = {} THEN Append(d, <<k, v>>)
                      ELSE [d EXCEPT ![CHOOSE i \in at : TRUE] = <<k, v>>])

\* config = dict(config_item.split(":") for config_item in _parse_string(...)):
\* every item must split into exactly two parts, or dict raises ValueError.
parse_config(per_file_ignores) ==
    LET items == parse_string(per_file_ignores)
        pairs == [i \in DOMAIN items |-> Split(items[i], ":")]
    IN  IF \E i \in DOMAIN pairs : Len(pairs[i]) # 2
        THEN [error |-> "ValueError", config |-> <<>>]
        ELSE [error |-> None, config |-> DictFrom(pairs, <<>>)]

\* parse_config, tabulated over the configuration strings of the model.
ConfigOf == [raw \in RawConfigs |-> parse_config(raw)]

\* list(filter(None, (rule.strip() for rule in rules_str.split(","))))
rule_list(rules_str) == StripNonEmpty(Split(rules_str, ","))

\* The loop over config.items(), from item i on; r is what _augment_add_message
\* did for item i.  An exception leaves the loop and what the earlier items
\* installed stays.  glob.glob is called once per item and reads the directory
\* when it is called: view[n] is the directory as the n-th call finds it.
RECURSIVE LoadItems(_, _, _, _, _, _, _)
AfterItem(linter, config, i, view, methods, globs, installs, r) ==
    IF r.ok
    THEN LoadItems(linter, config, i + 1, view, r.methods,
                   globs + 1, installs + r.installed)
    ELSE [result |-> "UnknownMessageError", methods |-> methods,
          globs |-> globs + 1, installs |-> installs]

\* if pattern.startswith("\n"): pattern = pattern[1:]
strip_newline(pattern) ==
    IF pattern # <<>> /\ pattern[1] = NL THEN Tail(pattern) ELSE pattern

\* [Path(file).absolute() for file in glob.glob(pattern, recursive=True)]
glob_files(pattern, files) == {Absolute(f) : f \in glob(pattern, files)}

\* glob_files, tabulated over the patterns and the directories of the model.
FilesOf == [pattern \in Patterns, files \in Directories |-> glob_files(pattern, files)]

LoadItems(linter, config, i, view, methods, globs, installs) ==
    IF i > Len(config)
    THEN [result |-> "ok", methods |-> methods, globs |-> globs, installs |-> installs]
    ELSE AfterItem(linter, config, i, view, methods, globs, installs,
                   augment_add_message(
                       linter,
                       rule_list(config[i][2]),
                       IF <<strip_newline(config[i][1]), view[globs + 1]>> \in DOMAIN FilesOf
                       THEN FilesOf[strip_newline(config[i][1]), view[globs + 1]]
                       ELSE glob_files(strip_newline(config[i][1]), view[globs + 1]),
                       methods))

LoadParsed(linter, parsed, view, methods) ==
    IF parsed.error # None
    THEN [result |-> parsed.error, methods |-> methods, globs |-> 0, installs |-> 0]
    ELSE LoadItems(linter, parsed.config, 1, view, methods, 0, 0)

\* load_configuration that splits and installs one line after the other: the
\* lines before the first malformed one are installed before ValueError is raised.
load_configuration_line_by_line(linter, per_file_ignores, view, methods) ==
    LET items == parse_string(per_file_ignores)
        pairs == [i \in DOMAIN items |-> Split(items[i], ":")]
        bad == {i \in DOMAIN pairs : Len(pairs[i]) # 2}
        n == IF bad = {} THEN Len(pairs)
             ELSE (CHOOSE i \in bad : \A j \in bad : i <= j) - 1
        r == LoadItems(linter, DictFrom(SubSeq(pairs, 1, n), <<>>), 1, view, methods, 0, 0)
    IN  IF bad = {} \/ r.result # "ok" THEN r ELSE [r EXCEPT !.result = "ValueError"]

load_configuration(linter, per_file_ignores, view, methods) ==
    LoadParsed(linter, ConfigOf[per_file_ignores], view, methods)

(***************************************************************************)
(* _add_message: the wrapper.                                              *)
(***************************************************************************)
\* any(msg in ppfi_messages for msg in defs)
any_in(defs, ppfi_messages) ==
    \E i \in DOMAIN defs : \E j \in DOMAIN ppfi_messages : ppfi_messages[j] = defs[i]

\* A wrapper that drops every message of its class in its files.
suppresses_any_message(wrapper, file, msgid) ==
    IF Absolute(file) \in wrapper.files THEN "return" ELSE "forward"

\* The wrapper's test, once its assertion has passed: "return" when the test
\* holds, "forward" when it does not.  The store is asked only when the file is
\* one of the wrapper's (the `and` stops at a false left side), and when it does
\* not know args[1] its UnknownMessageError leaves the wrapper.
suppresses(wrapper, file, msgid) ==
    IF Absolute(file) \notin wrapper.files THEN "forward"
    ELSE IF get_message_definitions(msgid) = <<>> THEN "UnknownMessageError"
    ELSE IF any_in(get_message_definitions(msgid), wrapper.ppfi_messages) THEN "return"
    ELSE "forward"

\* A call of the k-th wrapper of a class (0: the class's original add_message,
\* the engine's real emission): "failed" is the AssertionError, "dropped" the
\* early return, "forwarded" the original being reached, "UnknownMessageError"
\* the error of the store in a wrapper's test.
RECURSIVE call_add_message(_, _, _, _)
call_add_message(wrappers, k, files_of, msgid) ==
    IF k = 0 THEN "forwarded"
    ELSE LET w == wrappers[k]
             t == IF files_of[w.linter] = NoFile THEN "AssertionError"
                  ELSE suppresses(w, files_of[w.linter], msgid)
         IN  IF t = "AssertionError" THEN "failed"
             ELSE IF t = "UnknownMessageError" THEN "UnknownMessageError"
             ELSE IF t = "return" THEN "dropped"
             ELSE call_add_message(wrappers, k - 1, files_of, msgid)

\* The calls of the class's original add_message that a call of the k-th wrapper
\* makes, each with the arguments it receives: args[1] is the checker (self),
\* args[2] the msgid the wrapper looks up; ppfi_func(*args, **kwargs) passes both
\* on.  A wrapper that returns or raises makes none.
RECURSIVE add_message_calls(_, _, _, _, _)
add_message_calls(wrappers, k, files_of, args, kwargs) ==
    IF k = 0 THEN <<[args |-> args, kwargs |-> kwargs]>>
    ELSE LET w == wrappers[k]
         IN  IF files_of[w.linter] = NoFile THEN <<>>
             ELSE IF suppresses(w, files_of[w.linter], args[2]) # "forward" THEN <<>>
             ELSE add_message_calls(wrappers, k - 1, files_of, args, kwargs)

\* The checker object of a class that belongs to an engine instance, and the
\* keyword arguments of its add_message calls.
CheckerOf(linter, owner) == [linter |-> linter, class |-> owner]
EmitKwargs == [node |-> "node"]

\* What a checker passes to add_message: a message of its own catalog, by msgid
\* or by symbol.
MsgArgs(checker) ==
    {msgs[checker][k].msgid : k \in DOMAIN msgs[checker]}
        \cup {msgs[checker][k].symbol : k \in DOMAIN msgs[checker]}

\* The first argument of an add_message call: a message of the checker, or an
\* id that the store does not know.
EmitArgs(checker) == MsgArgs(checker) \cup {<<"X">>}

(***************************************************************************)
(* What the configuration text says, read off the written lines and the    *)
(* catalogs (not off the parser or the wrappers).                          *)
(***************************************************************************)
RuleSet == {StoreDefinitions[i] : i \in DOMAIN StoreDefinitions}

\* The rule a token names by id or by symbolic alias, whitespace around it apart,
\* and the checker that declares it.
Names(token, rule) == Strip(token) \in {rule.msgid, rule.symbol}
Resolves(token) == \E rule \in RuleSet : Names(token, rule)
RuleOf(token) == CHOOSE rule \in RuleSet : Names(token, rule)
OwnerOf(rule) == CHOOSE c \in Owners : \E k \in DOMAIN msgs[c] : msgs[c][k] = rule

WellFormed(lines) == \A i \in DOMAIN lines : lines[i].colon
AllKnown(lines) ==
    \A i \in DOMAIN lines : \A k \in DOMAIN lines[i].tokens : Resolves(lines[i].tokens[k])

\* The file a path of the engine names: the engine spells a file of the working
\* directory by its name or with "./" before it.
FileOf(path) ==
    IF \E f \in Files : path \in {f, <<".", "/">> \o f}
    THEN CHOOSE f \in Files : path \in {f, <<".", "/">> \o f}
    ELSE path

\* The identity of the file the engine names by a relative path.
FileId(path) == Cwd \o FileOf(path)

\* The files a pattern matches in a working directory.
Matched(pattern, files_now) == {FileId(f) : f \in {g \in files_now : GlobMatch(pattern, g)}}

\* The turn of a pattern in a load: patterns are expanded one after the other,
\* in the order in which they first appear in the configuration.
GlobTurn(lines, pattern) ==
    LET first == CHOOSE i \in DOMAIN lines :
                     /\ lines[i].pattern = pattern
                     /\ \A j \in 1..(i - 1) : lines[j].pattern # pattern
    IN  Cardinality({lines[j].pattern : j \in 1..first})

\* The entries of a configuration: each with the files its pattern matches in the
\* directory as it is when the pattern is expanded, the rules its tokens name,
\* and whether no later line of the configuration repeats its pattern.
Written(lines, view) ==
    {[pattern |-> lines[i].pattern,
      files |-> Matched(lines[i].pattern, view[GlobTurn(lines, lines[i].pattern)]),
      rules |-> {RuleOf(lines[i].tokens[k]) :
                     k \in {n \in DOMAIN lines[i].tokens : Resolves(lines[i].tokens[n])}},
      final |-> \A j \in DOMAIN lines : j > i => lines[j].pattern # lines[i].pattern]
     : i \in DOMAIN lines}

(***************************************************************************)
(* The process.                                                            *)
(***************************************************************************)
\* What n successive readings of the directory may find, the first one finding
\* `files`: other processes create and delete files between two readings.
Views(files, n) == {view \in [1..n -> Directories] : n > 0 => view[1] = files}

Init ==
    /\ fs \in Directories
    /\ current_file = [l \in Linters |-> NoFile]
    /\ add_message = [c \in Owners |-> <<>>]
    /\ aborted = FALSE
    /\ nlines = 0
    /\ entries = {}
    /\ load = NoLoad
    /\ last = NoEmission
    /\ pin = <<>>
    /\ pout = NoParse

\* The filesystem changes under the process.
CreateFile(f) ==
    /\ ~aborted
    /\ f \notin fs
    /\ fs' = fs \cup {f}
    /\ load' = NoLoad
    /\ last' = NoEmission
    /\ UNCHANGED <<current_file, add_message, aborted, nlines, entries, pin, pout>>

DeleteFile(f) ==
    /\ ~aborted
    /\ f \in fs
    /\ fs' = fs \ {f}
    /\ load' = NoLoad
    /\ last' = NoEmission
    /\ UNCHANGED <<current_file, add_message, aborted, nlines, entries, pin, pout>>

\* The engine starts on a module: linter.current_file is its path.
SetCurrentModule(linter, path) ==
    /\ ~aborted
    /\ current_file[linter] # path
    /\ current_file' = [current_file EXCEPT ![linter] = path]
    /\ load' = NoLoad
    /\ last' = NoEmission
    /\ UNCHANGED <<fs, add_message, aborted, nlines, entries, pin, pout>>

\* load_configuration(linter) with linter.config.per_file_ignores = Raw(lines, sep).
\* The call reads the directory once per glob.glob call, and the directory may
\* change between two calls: view[n] is what the n-th call finds (the first one
\* finds the directory of the state, and the places of the calls that are not
\* made repeat the last reading); the directory is left as last read.
\* An exception is not caught anywhere: the process ends.
LoadConfiguration(linter, lines, sep) ==
    /\ ~aborted
    /\ nlines + Len(lines) <= MaxLines
    /\ \E view \in Views(fs, Len(lines)) :
       \E r \in {load_configuration(linter, Raw(lines, sep), view, add_message)} :
           /\ \A n \in DOMAIN view :
                  n > r.globs => view[n] = (IF r.globs = 0 THEN fs ELSE view[r.globs])
           /\ fs' = IF view = <<>> THEN fs ELSE view[Len(view)]
           /\ add_message' = r.methods
           /\ aborted' = (r.result # "ok")
           /\ entries' = IF r.result = "ok" THEN entries \cup Written(lines, view)
                         ELSE entries
           /\ load' = [result |-> r.result, globs |-> r.globs, installs |-> r.installs,
                       before |-> add_message, lines |-> lines, sep |-> sep,
                       linter |-> linter, view |-> view]
    /\ nlines' = nlines + Len(lines)
    /\ last' = NoEmission
    /\ UNCHANGED <<current_file, pin, pout>>

\* The checker of class `owner` that belongs to `linter` calls
\* self.add_message(msgid, node=node): the outermost wrapper of its class is called.
Emit(linter, owner, msgid) ==
    /\ ~aborted
    /\ last' = [linter |-> linter, owner |-> owner, msgid |-> msgid,
                result |-> call_add_message(add_message[owner], Len(add_message[owner]),
                                            current_file, msgid),
                calls |-> add_message_calls(add_message[owner], Len(add_message[owner]),
                                            current_file,
                                            <<CheckerOf(linter, owner), msgid>>, EmitKwargs)]
    /\ load' = NoLoad
    /\ UNCHANGED <<fs, current_file, add_message, aborted, nlines, entries, pin, pout>>

\* One engine instance in the process.
Next ==
    \/ \E f \in Volatile : CreateFile(f)
    \/ \E f \in Volatile : DeleteFile(f)
    \/ \E p \in Paths : SetCurrentModule("L1", p)
    \/ \E lines \in ConfigsUpTo[MaxLines - nlines], sep \in Separators :
           LoadConfiguration("L1", lines, sep)
    \/ \E c \in Owners : \E m \in EmitArgs(c) : Emit("L1", c, m)

Spec == Init /\ [][Next]_vars

(***************************************************************************)
(* The parser on its own: a list of entries is written in both encodings   *)
(* and both strings are parsed.                                            *)
(***************************************************************************)
ParsePatterns == {<<>>, <<"a">>, <<"a", "*">>}
ParseRuleLists == {<<>>, << <<"W", "1">> >>, << <<"W", "1">>, <<"v">> >>}
ParseEntries == [pattern : ParsePatterns, tokens : ParseRuleLists, colon : {TRUE}]

ParseInputs == {q \in SeqsUpTo(ParseEntries, MaxEntries) : Len(q) >= 2}

InitParse ==
    /\ pin \in ParseInputs
    /\ pout = NoParse
    /\ fs = Files \ Volatile
    /\ current_file = [l \in Linters |-> NoFile]
    /\ add_message = [c \in Owners |-> <<>>]
    /\ aborted = FALSE
    /\ nlines = 0
    /\ entries = {}
    /\ load = NoLoad
    /\ last = NoEmission

ParseBoth ==
    /\ pout = NoParse
    /\ pout' = [done |-> TRUE,
                lines |-> parse_config(Raw(pin, NL)),
                flat |-> parse_config(Raw(pin, ","))]
    /\ UNCHANGED <<fs, current_file, add_message, aborted, nlines, entries, load, last, pin>>

NextParse == ParseBoth

SpecParse == InitParse /\ [][NextParse]_vars

(***************************************************************************)
(* One configuration line on its own: a string without comma, whitespace    *)
(* and line break is the single item of _parse_string, and dict(...) is     *)
(* built from its split on ":".                                             *)
(***************************************************************************)
LineChars == {"a", "W", ":"}
LineInputs == SeqsUpTo(LineChars, MaxLineLen) \ {<<>>}

InitLine ==
    /\ pin \in LineInputs
    /\ pout = NoParse
    /\ fs = Files \ Volatile
    /\ current_file = [l \in Linters |-> NoFile]
    /\ add_message = [c \in Owners |-> <<>>]
    /\ aborted = FALSE
    /\ nlines = 0
    /\ entries = {}
    /\ load = NoLoad
    /\ last = NoEmission

ParseLine ==
    /\ pout = NoParse
    /\ pout' = [done |-> TRUE, items |-> parse_string(pin), parsed |-> parse_config(pin)]
    /\ UNCHANGED <<fs, current_file, add_message, aborted, nlines, entries, load, last, pin>>

NextLine == ParseLine

SpecLine == InitLine /\ [][NextLine]_vars

(***************************************************************************)
(* Two engine instances in one process: the checker classes, and so the    *)
(* wrappers on them, are shared; each instance has its own current_file,   *)
(* its own checker objects and may load its own configuration.             *)
(***************************************************************************)
\* The configurations, with their separator, that load_configuration loads
\* without an exception, whatever the directory holds and whatever is installed
\* (a failed load ends the process, whichever instance made it).  A token of a
\* line that a later line with the same pattern overrides is never looked up.
Loads(lines, sep) ==
    load_configuration("L1", Raw(lines, sep), [n \in 1..Len(lines) |-> Files],
                       [c \in Owners |-> <<>>]).result = "ok"

LoadableConfigs ==
    UNION {IF Loads(lines, sep) THEN {<<lines, sep>>} ELSE {} :
               lines \in Configs, sep \in Separators}

\* The loadable configurations of at most n lines.
LoadableUpTo ==
    [n \in 0..MaxLines |->
        UNION {IF Len(ls[1]) <= n THEN {ls} ELSE {} : ls \in LoadableConfigs}]

NextMulti ==
    \/ \E l \in Linters, p \in Paths : SetCurrentModule(l, p)
    \/ \E l \in Linters, ls \in LoadableUpTo[MaxLines - nlines] :
           LoadConfiguration(l, ls[1], ls[2])
    \/ \E l \in Linters, c \in Owners : \E m \in EmitArgs(c) : Emit(l, c, m)

SpecMulti == Init /\ [][NextMulti]_vars

(***************************************************************************)
(* Properties.                                                             *)
(***************************************************************************)
Loaded == load # NoLoad
\* The last step was an add_message call of a checker; it was the emission of a
\* rule when its first argument names one.
Attempted == last # NoEmission
Emitted == Attempted /\ Resolves(last.msgid)
\* The file being processed when the emission of the last step was made.
EmittedFile == current_file[last.linter]
EmittedRule == RuleOf(last.msgid)

\* What the written entries E ask for: an emission is dropped when one entry
\* that no later line overrides holds both its file and its rule.
Expected(E, path, rule) ==
    IF \E e \in E : e.final /\ FileId(path) \in e.files /\ rule \in e.rules
    THEN "dropped"
    ELSE "forwarded"

\* C1: after a successful load, for every written entry, every file its pattern
\* matched at load time and every rule it names, an emission of that rule by its
\* owner while that file is processed is dropped.
C1_EveryEntrySuppresses ==
    (Emitted /\ EmittedFile # NoFile) =>
        \A e \in entries :
            (FileId(EmittedFile) \in e.files /\ EmittedRule \in e.rules)
                => last.result = "dropped"

\* C2: after a successful load, an emission reaches the real emission whenever
\* its file is outside every resolved file set, and whenever its rule is not among
\* the suppressed rules.
C2_OutsideFilesOrRulesForwarded ==
    (Emitted /\ EmittedFile # NoFile) =>
        /\ (\A e \in entries : e.final => FileId(EmittedFile) \notin e.files)
               => last.result = "forwarded"
        /\ (\A e \in entries : e.final => EmittedRule \notin e.rules)
               => last.result = "forwarded"

\* Another diagnostic kind in a suppressed file is reported.
C2_Witness ==
    /\ Emitted
    /\ last.result = "forwarded"
    /\ \E e \in entries : e.final /\ e.rules # {} /\ FileId(EmittedFile) \in e.files
    /\ \A e \in entries : EmittedRule \notin e.rules

\* C3: for every list of two or more entries without comma, colon or line break
\* in patterns and tokens, the entries joined by line breaks and the entries
\* joined by commas parse to the same pattern -> rule-list mapping.
C3_EncodingsEquivalent == pout.done => pout.lines = pout.flat

\* C3 as amended: the same, for lists whose entries after the first have a
\* non-empty pattern.
C3_EncodingsEquivalentNonEmptyPatterns ==
    (pout.done /\ \A i \in DOMAIN pin : i > 1 => pin[i].pattern # <<>>)
        => pout.lines = pout.flat

C3_Witness ==
    /\ pout.done
    /\ \A i \in DOMAIN pin : i > 1 => pin[i].pattern # <<>>
    /\ \E i \in DOMAIN pin : Len(pin[i].tokens) = 2
    /\ pout.flat.error = None
    /\ Len(pout.flat.config) >= 2

\* C4: every written rule token that resolves to no rule definition or to no
\* owner makes load_configuration fail with the unknown-rule error.
C4_UnknownTokenFails ==
    (Loaded /\ WellFormed(load.lines) /\ ~AllKnown(load.lines))
        => load.result = "UnknownMessageError"

\* C5: when load_configuration fails, every owner's emission entry point is the
\* same as before the call.
C5_FailedLoadInstallsNothing ==
    (Loaded /\ load.result # "ok") => add_message = load.before

\* C6: a configuration with a line that holds no colon (after line-splitting)
\* fails with the configuration error, before any pattern is expanded and before
\* any wrapper is installed.
C6_MissingColonFailsFirst ==
    Loaded =>
        /\ (\E item \in {parse_string(Raw(load.lines, load.sep))[i] :
                            i \in DOMAIN parse_string(Raw(load.lines, load.sep))} :
                ~Contains(item, ":"))
               => load.result = "ValueError"
        /\ load.result = "ValueError"
               => load.globs = 0 /\ load.installs = 0 /\ add_message = load.before

\* The line without colon comes after a line that would have installed a wrapper.
C6_Witness ==
    /\ Loaded
    /\ load.result = "ValueError"
    /\ load.sep = NL
    /\ Len(load.lines) = 2
    /\ load.lines[1].colon /\ AllKnown(<<load.lines[1]>>)
    /\ Matched(load.lines[1].pattern, fs) # {}
    /\ ~load.lines[2].colon

\* The wrappers of a class without those of the entries that matched no file.
WithoutZeroMatch(wrappers) ==
    LET matched(w) == w.files # {}
    IN  SelectSeq(wrappers, matched)

\* What the add_message call of the last step would have done had the entries
\* that matched no file not been written.
ResultWithoutZeroMatch ==
    call_add_message(WithoutZeroMatch(add_message[last.owner]),
                     Len(WithoutZeroMatch(add_message[last.owner])),
                     current_file, last.msgid)

\* C7: an entry whose pattern matches no file is no error, and every later
\* add_message call, whatever the current file is (none included), ends as it
\* would if the entry were not written.
C7_ZeroMatchEntryIsInert ==
    /\ (Loaded /\ WellFormed(load.lines) /\ AllKnown(load.lines)) => load.result = "ok"
    /\ Attempted => last.result = ResultWithoutZeroMatch

\* C7 for the emissions made while a file is processed: the outcome is the one
\* the entries with a non-empty file set ask for.
C7_InertWhileFileProcessed ==
    /\ (Loaded /\ WellFormed(load.lines) /\ AllKnown(load.lines)) => load.result = "ok"
    /\ (Emitted /\ EmittedFile # NoFile) =>
           /\ last.result = ResultWithoutZeroMatch
           /\ last.result = Expected({e \in entries : e.files # {}}, EmittedFile, EmittedRule)

\* A rule of an entry that matched no file is emitted in a file the entry's
\* pattern matches by now, and reported.
C7_ReportedInLaterFile ==
    /\ Emitted
    /\ EmittedFile # NoFile
    /\ last.result = "forwarded"
    /\ \E e \in entries : /\ e.final
                          /\ e.files = {}
                          /\ EmittedRule \in e.rules
                          /\ GlobMatch(e.pattern, FileOf(EmittedFile))

\* C8: the file set of an entry is the one of load time: a file created later
\* that matches the pattern is reported, a file that matched stays suppressed
\* whatever the filesystem holds afterwards.
C8_FilesFixedAtLoad ==
    (Emitted /\ EmittedFile # NoFile) =>
        /\ (\E e \in entries : e.final /\ FileId(EmittedFile) \in e.files
                                       /\ EmittedRule \in e.rules)
               => last.result = "dropped"
        /\ (\A e \in entries : EmittedRule \in e.rules => FileId(EmittedFile) \notin e.files)
               => last.result = "forwarded"

\* A file that did not exist at load time exists now, matches the pattern of an
\* entry that names the emitted rule, and the emission is reported.
C8_Witness ==
    /\ Emitted
    /\ last.result = "forwarded"
    /\ FileOf(EmittedFile) \in fs
    /\ \E e \in entries : /\ e.final
                          /\ EmittedRule \in e.rules
                          /\ GlobMatch(e.pattern, FileOf(EmittedFile))
                          /\ FileId(EmittedFile) \notin e.files

\* A file that matched at load time and was deleted since is still suppressed.
C8_DeletedStillSuppressed ==
    /\ Emitted
    /\ last.result = "dropped"
    /\ FileOf(EmittedFile) \notin fs

\* C9: at most one wrapper is active per owner.
C9_OneLayerPerOwner == \A c \in Owners : Len(add_message[c]) <= 1

\* C10: an emission attempt through the wrappers is dropped or forwarded, and the
\* wrapper never fails, whatever the current file is.
C10_LayerNeverFails == Attempted => last.result \in {"dropped", "forwarded"}

\* What the wrappers of the emitting checker's class decide when each of them
\* reads the file of the instance that emits.
DecidedWithOwnFile ==
    call_add_message(add_message[last.owner], Len(add_message[last.owner]),
                     [l \in Linters |-> EmittedFile], last.msgid)

\* C11: when every engine instance of the process is processing a file, an
\* emission is decided with the file of the instance that emits, never with the
\* file of the instance that installed the wrapper.
C11_DecidedWithEmittersFile ==
    (Emitted /\ \A l \in Linters : current_file[l] # NoFile)
        => last.result = DecidedWithOwnFile

\* With wrappers `methods` on the classes, an emission of msgid by a checker of
\* class owner while file is processed is dropped.
SuppressedBy(methods, file, owner, msgid) ==
    call_add_message(methods[owner], Len(methods[owner]),
                     [l \in Linters |-> file], msgid) = "dropped"

\* C12: in every step of the process that changes the wrappers (the others leave
\* every decision as it is), an owner that has a wrapper keeps having one, and
\* every (file, rule) pair that is suppressed before the step is suppressed
\* after it, whatever the step loads.
C12_InstallationMonotonic ==
    [][add_message' # add_message =>
           \A c \in Owners :
               /\ add_message[c] # <<>> => add_message'[c] # <<>>
               /\ \A f \in Paths, m \in MsgArgs(c) :
                      SuppressedBy(add_message, f, c, m)
                          => SuppressedBy(add_message', f, c, m)
      ]_vars

\* A later load put a further wrapper on an owner that had one, and a pair that
\* was suppressed before that load is suppressed after it.
C12_Witness ==
    /\ Loaded
    /\ load.result = "ok"
    /\ \E c \in Owners :
           /\ load.before[c] # <<>>
           /\ Len(add_message[c]) > Len(load.before[c])
           /\ \E f \in Paths, m \in MsgArgs(c) :
                  /\ SuppressedBy(load.before, f, c, m)
                  /\ SuppressedBy(add_message, f, c, m)

\* An empty configuration was loaded over installed wrappers, which stay.
C12_EmptyLoadKeepsWrappers ==
    /\ Loaded
    /\ load.lines = <<>>
    /\ \E c \in Owners : add_message[c] # <<>>

\* The position of the first colon of a line that holds one.
FirstColon(s) == CHOOSE i \in 1..Len(s) : s[i] = ":" /\ \A j \in 1..(i - 1) : s[j] # ":"

\* C13: a line that holds at least one colon parses to the pattern before its
\* first colon and the rule-list string after it, further colons included; a
\* line without colon is the configuration error.
C13_SplitOnceOnColon ==
    pout.done =>
        /\ pout.items = <<pin>>
        /\ IF Contains(pin, ":")
           THEN /\ pout.parsed.error = None
                /\ pout.parsed.config =
                       << <<SubSeq(pin, 1, FirstColon(pin) - 1),
                            SubSeq(pin, FirstColon(pin) + 1, Len(pin))>> >>
           ELSE pout.parsed.error = "ValueError"

\* C14: after successful loads, an emission is dropped only if one single entry
\* (that no later line of its configuration overrides) holds both the file, in
\* the file set of its load time, and the rule; the files of one entry and the
\* rules of another never combine.
C14_NoLeakAcrossEntries ==
    (Emitted /\ last.result = "dropped") =>
        \E e \in entries :
            e.final /\ FileId(EmittedFile) \in e.files /\ EmittedRule \in e.rules

\* Two entries name rules of the same owner; a rule of the first only is emitted
\* in a file of the second only, and reported.
C14_Witness ==
    /\ Emitted
    /\ last.result = "forwarded"
    /\ \E e1, e2 \in entries :
           /\ e1.final /\ e2.final
           /\ EmittedRule \in e1.rules \ e2.rules
           /\ FileId(EmittedFile) \in e2.files \ e1.files
           /\ \E r \in e2.rules : OwnerOf(r) = last.owner

\* Some wrapper of the emitting checker's class holds the file and the rule of
\* the emission of the last step.
SomeLayerDrops ==
    \E k \in DOMAIN add_message[last.owner] :
        suppresses(add_message[last.owner][k], EmittedFile, last.msgid) = "return"

\* What reaches the class's original add_message when the chain neither loses
\* nor doubles the emission of the last step: nothing when some wrapper drops
\* it, else the one call with its positional and keyword arguments.
DeliveredOnceOrDropped ==
    last.calls = IF SomeLayerDrops
                 THEN <<>>
                 ELSE <<[args |-> <<CheckerOf(last.linter, last.owner), last.msgid>>,
                         kwargs |-> EmitKwargs]>>

\* C15: with any number of wrappers on a class, every emission, whatever the
\* current file is (none included), reaches the class's original add_message
\* exactly once, with the positional and keyword arguments of the call, when no
\* wrapper drops it, and not at all when some wrapper drops it.
C15_DeliveredOnceOrDropped == Emitted => DeliveredOnceOrDropped

\* C15 for the emissions made while a file is processed.
C15_DeliveredWhileFileProcessed == (Emitted /\ EmittedFile # NoFile) => DeliveredOnceOrDropped

\* An emission went through two wrappers of its class and reached the original.
C15_DeliveredThroughTwoLayers ==
    /\ Emitted
    /\ EmittedFile # NoFile
    /\ Len(add_message[last.owner]) >= 2
    /\ ~SomeLayerDrops
    /\ Len(last.calls) = 1

\* The outer of two wrappers passed an emission on and the inner one dropped it.
C15_DroppedByInnerLayer ==
    /\ Emitted
    /\ EmittedFile # NoFile
    /\ Len(add_message[last.owner]) >= 2
    /\ suppresses(add_message[last.owner][1], EmittedFile, last.msgid) = "return"
    /\ \A k \in 2..Len(add_message[last.owner]) :
           suppresses(add_message[last.owner][k], EmittedFile, last.msgid) = "forward"
    /\ last.calls = <<>>

\* The lines of a configuration without those whose pattern a later line repeats.
RECURSIVE WithoutEarlierDuplicates(_)
WithoutEarlierDuplicates(lines) ==
    IF lines = <<>> THEN <<>>
    ELSE (IF \E j \in 2..Len(lines) : lines[j].pattern = lines[1].pattern
          THEN <<>> ELSE <<lines[1]>>)
             \o WithoutEarlierDuplicates(Tail(lines))

\* What the load of the last step would have done without its earlier
\* duplicates, every pattern finding the directory that it found in that load.
LoadWithoutEarlierDuplicates ==
    LET kept == WithoutEarlierDuplicates(load.lines)
    IN  load_configuration(
            load.linter, Raw(kept, load.sep),
            [j \in DOMAIN kept |-> load.view[GlobTurn(load.lines, kept[j].pattern)]],
            load.before)

\* C16: a load of a configuration in which a pattern is written more than once
\* ends as the load of the same configuration without the earlier entries of
\* that pattern, and when it succeeds it suppresses the same (file, rule) pairs:
\* the rule tokens of the earlier entries are neither resolved nor suppressed.
C16_LastDuplicateWins ==
    (Loaded /\ WellFormed(load.lines)) =>
        /\ load.result = LoadWithoutEarlierDuplicates.result
        /\ load.result = "ok" =>
               \A c \in Owners : \A f \in Paths, m \in MsgArgs(c) :
                   SuppressedBy(add_message, f, c, m)
                       <=> SuppressedBy(LoadWithoutEarlierDuplicates.methods, f, c, m)

\* A configuration of two entries with the same pattern was loaded; the first
\* holds a rule the second does not hold, and that rule is not suppressed in a
\* file of the pattern, while a rule of the second is.
C16_Witness ==
    /\ Loaded
    /\ load.result = "ok"
    /\ load.before = [c \in Owners |-> <<>>]
    /\ Len(load.lines) = 2
    /\ load.lines[1].pattern = load.lines[2].pattern
    /\ \E f \in fs, k \in DOMAIN load.lines[1].tokens :
           /\ GlobMatch(load.lines[1].pattern, f)
           /\ Resolves(load.lines[1].tokens[k])
           /\ ~SuppressedBy(add_message, f, OwnerOf(RuleOf(load.lines[1].tokens[k])),
                            RuleOf(load.lines[1].tokens[k]).msgid)
           /\ \E n \in DOMAIN load.lines[2].tokens :
                  SuppressedBy(add_message, f, OwnerOf(RuleOf(load.lines[2].tokens[n])),
                               RuleOf(load.lines[2].tokens[n]).msgid)

\* The first of two entries with the same pattern holds an unknown token, and
\* the load succeeds.
C16_EarlierTokenNotResolved ==
    /\ Loaded
    /\ load.result = "ok"
    /\ Len(load.lines) = 2
    /\ load.lines[1].pattern = load.lines[2].pattern
    /\ ~AllKnown(<<load.lines[1]>>)

====
